---- MODULE Spec2Model ----
(***************************************************************************)
(* Model of utils/ioscripts.py: the parameters.hpp text builders and the   *)
(* parsers of the engine's fixed-layout text report.                       *)
(*                                                                         *)
(* A Python str is modelled as a tuple of one-character strings, a Python  *)
(* list as a sequence, and every value a parser returns carries its Python *)
(* type: [py |-> "str", val |-> <<chars>>] or [py |-> "float", val |-> f]. *)
(* List subscripts are the zero-based Python ones; the sequence holding    *)
(* the list is one-based, so lines[idx] is written lines[idx + 1].         *)
(* The text a builder returns is modelled as the sequence of its lines,    *)
(* each a macro definition, a comment or a blank line.  The newline that   *)
(* readlines() keeps at the end of a line is left out: it is part of no    *)
(* token.  Boolean parameters take the values True and False only.         *)
(***************************************************************************)
EXTENDS Integers, Sequences, FiniteSets, TLC

VARIABLES
  report,   \* the lines of the report file at temp_fname (f.readlines())
  op,       \* name of the function called last ("none" before any call)
  args,     \* the arguments of that call
  outcome,  \* "idle", "returned" or "raised"
  ret,      \* the value returned (<<>> when nothing was returned)
  exc,      \* the exception that reached the caller (<<>> when none)
  reads     \* the subscripts idx of every lines[idx] the call evaluated, in order

vars == <<report, op, args, outcome, ret, exc, reads>>

(***************************************************************************)
(* Bounds of the model.                                                    *)
(***************************************************************************)
\* Reports have 0 .. MaxLines lines.
MaxLines == 26

(***************************************************************************)
(* The numeric-token pattern                                               *)
(*   p = r'[-+]?\d*\.?\d+(?:[eE][-+]?\d+)?|nan'                            *)
(* matched the way Python's backtracking engine matches it.                *)
(***************************************************************************)
Digits == {"0", "1", "2", "3", "4", "5", "6", "7", "8", "9"}

Signs == {"-", "+"}

\* Length of the run of digits of s that starts at position i (\d* greedy).
RECURSIVE DigitRun(_, _)
DigitRun(s, i) ==
  IF i <= Len(s) /\ s[i] \in Digits THEN 1 + DigitRun(s, i + 1) ELSE 0

\* [-+]? at position i: a sign is taken when there is one (without it the
\* rest of the alternative cannot match at a sign).
SkipSign(s, i) == IF i <= Len(s) /\ s[i] \in Signs THEN i + 1 ELSE i

\* Number of digits after a point at position dot, 0 when there is no point.
FractionRun(s, dot) ==
  IF dot <= Len(s) /\ s[dot] = "." THEN DigitRun(s, dot + 1) ELSE 0

\* \d*\.?\d+ after a run of a digits that ends before position dot: ".digits"
\* is taken when a point and b >= 1 digits follow; otherwise \d* gives one
\* digit back to \d+ and the a digits match, when a >= 1.  0: no match.
MantissaEnd(dot, a, b) ==
  IF b > 0 THEN dot + 1 + b ELSE IF a > 0 THEN dot ELSE 0

MantissaFrom(s, i1, a) == MantissaEnd(i1 + a, a, FractionRun(s, i1 + a))

Mantissa(s, i1) == MantissaFrom(s, i1, DigitRun(s, i1))

\* (?:[eE][-+]?\d+)? after a mantissa that ends before position mend: taken
\* when e/E, an optional sign and c >= 1 digits follow.
ExponentDigits(s, mend) ==
  IF mend + 1 <= Len(s) /\ s[mend + 1] \in Signs THEN mend + 2 ELSE mend + 1

ExponentEnd(mend, e1, c) == IF c > 0 THEN e1 + c ELSE mend

ExponentFrom(s, mend, e1) == ExponentEnd(mend, e1, DigitRun(s, e1))

Exponent(s, mend) ==
  IF mend = 0 THEN 0
  ELSE IF mend <= Len(s) /\ s[mend] \in {"e", "E"}
       THEN ExponentFrom(s, mend, ExponentDigits(s, mend))
       ELSE mend

\* First alternative at position i: the position after the match, 0 if none.
NumberMatchEnd(s, i) == Exponent(s, Mantissa(s, SkipSign(s, i)))

\* Second alternative at position i: the literal nan.
NanMatchEnd(s, i) ==
  IF i + 2 <= Len(s) /\ s[i] = "n" /\ s[i + 1] = "a" /\ s[i + 2] = "n"
  THEN i + 3 ELSE 0

\* a|b: the second alternative is tried only when the first fails.
Alternation(first, second) == IF first > 0 THEN first ELSE second

MatchEnd(s, i) == Alternation(NumberMatchEnd(s, i), NanMatchEnd(s, i))

\* re.findall(p, s), scanning from position i: the non-overlapping matches,
\* leftmost first.  e is MatchEnd(s, i): after a match the scan goes on
\* behind it, otherwise one character further.
RECURSIVE FindAllFrom(_, _)
RECURSIVE ScanStep(_, _, _)
ScanStep(s, i, e) ==
  IF e > 0 THEN <<SubSeq(s, i, e - 1)>> \o FindAllFrom(s, e)
  ELSE FindAllFrom(s, i + 1)

FindAllFrom(s, i) ==
  IF i > Len(s) THEN <<>> ELSE ScanStep(s, i, MatchEnd(s, i))

FindAll(s) == FindAllFrom(s, 1)

(***************************************************************************)
(* float(x) on a token of the pattern: the decimal value mant * 10^exp,    *)
(* normalised so that equal numbers have equal representations (float("2") *)
(* = float("2.0") = float("+20e-1")), with nan, overflow to inf and        *)
(* underflow to zero.  Tokens of the reports modelled here have few enough *)
(* digits that the decimal value determines the double.                    *)
(***************************************************************************)
DigitVal(c) ==
  CASE c = "0" -> 0 [] c = "1" -> 1 [] c = "2" -> 2 [] c = "3" -> 3
    [] c = "4" -> 4 [] c = "5" -> 5 [] c = "6" -> 6 [] c = "7" -> 7
    [] c = "8" -> 8 [] c = "9" -> 9

\* The number written by the n digits of s that start at position i.
RECURSIVE DigitsToNat(_, _, _)
DigitsToNat(s, i, n) ==
  IF n = 0 THEN 0
  ELSE 10 * DigitsToNat(s, i, n - 1) + DigitVal(s[i + n - 1])

RECURSIVE Pow10(_)
Pow10(n) == IF n = 0 THEN 1 ELSE 10 * Pow10(n - 1)

RECURSIVE NumDigits(_)
NumDigits(m) == IF m < 10 THEN 1 ELSE 1 + NumDigits(m \div 10)

RECURSIVE Normalise(_, _)
Normalise(m, e) ==
  IF m = 0 THEN <<0, 0>>
  ELSE IF m % 10 = 0 THEN Normalise(m \div 10, e + 1)
  ELSE <<m, e>>

\* 308 and -324 are the largest and smallest decimal exponents of a finite,
\* nonzero double.
Float(tok) ==
  IF tok = <<"n", "a", "n">>
  THEN [py |-> "float", val |-> [cls |-> "nan", neg |-> FALSE, mant |-> 0, exp |-> 0]]
  ELSE
    LET neg  == tok[1] = "-"
        i1   == IF tok[1] \in Signs THEN 2 ELSE 1
        a    == DigitRun(tok, i1)
        dot  == i1 + a
        b    == IF dot <= Len(tok) /\ tok[dot] = "." THEN DigitRun(tok, dot + 1) ELSE 0
        mend == IF b > 0 THEN dot + 1 + b ELSE dot
        mant == DigitsToNat(tok, i1, a) * Pow10(b) + DigitsToNat(tok, dot + 1, b)
        eneg == mend + 1 <= Len(tok) /\ tok[mend + 1] = "-"
        e1   == IF mend + 1 <= Len(tok) /\ tok[mend + 1] \in Signs
                THEN mend + 2 ELSE mend + 1
        c    == IF mend <= Len(tok) THEN DigitRun(tok, e1) ELSE 0
        eabs == DigitsToNat(tok, e1, c)
        n    == Normalise(mant, (IF eneg THEN 0 - eabs ELSE eabs) - b)
        mag  == NumDigits(n[1]) + n[2] - 1
    IN  IF n[1] # 0 /\ mag > 308
        THEN [py |-> "float", val |-> [cls |-> "inf", neg |-> neg, mant |-> 0, exp |-> 0]]
        ELSE IF n[1] = 0 \/ mag < 0 - 324
        THEN [py |-> "float", val |-> [cls |-> "fin", neg |-> neg, mant |-> 0, exp |-> 0]]
        ELSE [py |-> "float", val |-> [cls |-> "fin", neg |-> neg, mant |-> n[1], exp |-> n[2]]]

\* A matched token kept as the str re.findall returned.
Str(tok) == [py |-> "str", val |-> tok]

(***************************************************************************)
(* The report parsers.  A frame holds the locals of a running call; once   *)
(* raised is set, the IndexError is propagating and the remaining          *)
(* statements are skipped.                                                 *)
(***************************************************************************)
NewFrame ==
  [raised |-> FALSE, reads |-> <<>>, emergent |-> <<>>,
   obs_array |-> <<>>, obs_std |-> <<>>, time |-> <<>>]

\* xs[0]: IndexError on an empty list.
First(xs) ==
  IF xs = <<>> THEN [ok |-> FALSE, tok |-> <<>>]
  ELSE [ok |-> TRUE, tok |-> xs[1]]

\* Variant: a missing line or token is replaced by the token 0.
FetchOrDefault(lines, idx) ==
  IF idx >= Len(lines) THEN [ok |-> TRUE, tok |-> <<"0">>]
  ELSE IF FindAll(lines[idx + 1]) = <<>> THEN [ok |-> TRUE, tok |-> <<"0">>]
  ELSE First(FindAll(lines[idx + 1]))

\* re.findall(p, lines[idx])[0]: both subscripts raise IndexError, the first
\* when the file has no line idx, the second when the line has no token.
Fetch(lines, idx) ==
  IF idx >= Len(lines) THEN [ok |-> FALSE, tok |-> <<>>]
  ELSE First(FindAll(lines[idx + 1]))

\* The token fetched from lines[idx] is stored in the local named field, or
\* the IndexError starts to propagate.
Store(fr, r, idx, field) ==
  IF r.ok
  THEN [fr EXCEPT ![field] = Append(@, Str(r.tok)), !.reads = Append(@, idx)]
  ELSE [fr EXCEPT !.raised = TRUE, !.reads = Append(@, idx)]

\* Variant: the statements after a failed one are still run.
ExtractAfterFailure(fr, lines, idx, field) ==
  Store(fr, Fetch(lines, idx), idx, field)

\* One statement  local = re.findall(p, lines[idx])[0]  (or local.append of
\* it).
Extract(fr, lines, idx, field) ==
  IF fr.raised THEN fr ELSE Store(fr, Fetch(lines, idx), idx, field)

\* sign, sign_std, mean_q, max_q from lines 2, 3, 4, 5.
Emergent(fr, lines) ==
  Extract(Extract(Extract(Extract(fr, lines, 2, "emergent"),
                          lines, 3, "emergent"),
                  lines, 4, "emergent"),
          lines, 5, "emergent")

\* Variant: the cursor starts one line late, idx = 6 + 3*j - 1.
RECURSIVE ObsLoopShifted(_, _, _, _)
ObsLoopShifted(fr, lines, j, stop) ==
  IF j >= stop THEN fr
  ELSE ObsLoopShifted(Extract(Extract(fr, lines, 6 + 3 * j - 1, "obs_array"),
                              lines, (6 + 3 * j - 1) + 1, "obs_std"),
                      lines, j + 1, stop)

\* for j in range(j, stop): idx = 6 + 3*j - 2, the estimate from lines[idx],
\* then idx += 1 and its standard error from lines[idx].
RECURSIVE ObsLoop(_, _, _, _)
ObsLoop(fr, lines, j, stop) ==
  IF j >= stop THEN fr
  ELSE ObsLoop(Extract(Extract(fr, lines, 6 + 3 * j - 2, "obs_array"),
                       lines, (6 + 3 * j - 2) + 1, "obs_std"),
               lines, j + 1, stop)

\* [float(x) for x in xs]
FloatAll(xs) == [i \in 1 .. Len(xs) |-> Float(xs[i].val)]

IndexError == [type |-> "IndexError", message |-> "list index out of range"]

\* The exception reaches the caller: nothing is returned.
Raise(fr) ==
  [outcome |-> "raised", ret |-> <<>>, exc |-> IndexError, reads |-> fr.reads]

\* return emergent, array, std, time
Return(fr, array, std) ==
  [outcome |-> "returned", ret |-> <<fr.emergent, array, std, fr.time[1]>>,
   exc |-> <<>>, reads |-> fr.reads]

\* The end of parse_otxt_temp: the two lists are converted with float (which
\* accepts every token of the pattern) and returned.
FinishOtxt(fr) ==
  IF fr.raised THEN Raise(fr)
  ELSE Return(fr, FloatAll(fr.obs_array), FloatAll(fr.obs_std))

\* Variant: the other two parsers convert their lists as well.
FinishObsCoerced(fr) ==
  IF fr.raised THEN Raise(fr)
  ELSE Return(fr, FloatAll(fr.obs_array), FloatAll(fr.obs_std))

\* The end of the other two parsers: the lists are returned as they are.
FinishObs(fr) ==
  IF fr.raised THEN Raise(fr) ELSE Return(fr, fr.obs_array, fr.obs_std)

parse_otxt_temp(lines) ==
  FinishOtxt(Extract(ObsLoop(Emergent(NewFrame, lines), lines, 1, 7),
                     lines, 6 + 3 * 6, "time"))

\* After max_idx is set: the loop over range(1, max_idx) and the time line.
SusceptibilityBody(lines, max_idx) ==
  FinishObs(Extract(ObsLoop(Emergent(NewFrame, lines), lines, 1, max_idx),
                    lines, 6 + 3 * (max_idx - 1), "time"))

\* Variant: fidsus is ignored and three groups are always read.
SusceptibilityIgnoringFidsus(lines, fidsus) == SusceptibilityBody(lines, 4)

parse_susceptibility_temp(lines, fidsus) ==
  SusceptibilityBody(lines, IF fidsus = TRUE THEN 4 ELSE 3)

\* Variant: the time is read from line 6 + 3*(2 - 1).
CorrelatorTimeOneGroupEarly(lines) ==
  FinishObs(Extract(ObsLoop(Emergent(NewFrame, lines), lines, 1, 3),
                    lines, 6 + 3 * (2 - 1), "time"))

parse_correlator_temp(lines) ==
  FinishObs(Extract(ObsLoop(Emergent(NewFrame, lines), lines, 1, 3),
                    lines, 6 + 3 * 2, "time"))

(***************************************************************************)
(* The parameters.hpp builders.  A line "#define NAME VALUE // ..." is     *)
(* Define(NAME, VALUE), a bare "#define NAME // ..." is Toggle(NAME); the  *)
(* comment behind a definition is not modelled.  An interpolated integer   *)
(* {n} is written with the digits of n and kept as n; beta and tau are     *)
(* Python floats, given by the text str() writes for them.                 *)
(***************************************************************************)
Define(name, value) == [kind |-> "define", name |-> name, value |-> <<value>>]

Toggle(name) == [kind |-> "define", name |-> name, value |-> <<>>]

Comment(words) == [kind |-> "comment", name |-> words, value |-> <<>>]

Blank == [kind |-> "blank", name |-> "", value |-> <<>>]

\* A keyword argument is <<>> when the caller omits it and <<v>> when the
\* caller passes v; Arg binds the parameter to v or to its default.
Arg(opt, default) == IF opt = <<>> THEN default ELSE opt[1]

make_param_file_header(beta, tau, Tsteps, steps, stepsPerMeasurement, parity) ==
  << Blank,
     Comment("//"),
     Comment("// This program implements Permutation Matrix Representation Quantum Monte Carlo"),
     Comment("//"),
     Comment("// This program is introduced in the paper:"),
     Comment("// Lev Barash, Arman Babakhani, Itay Hen, A quantum Monte Carlo algorithm"),
     Comment("//"),
     Comment("// Various advanced measurement capabilities were added as part of the"),
     Comment("// work introduced in the papers:"),
     Comment("// * Nic Ezzell, Lev Barash, Itay Hen, Exact and universal quantum Monte Carlo estimators"),
     Comment("// * Nic Ezzell and Itay Hen, Advanced measurement techniques in quantum Monte Carlo"),
     Comment("//"),
     Comment("// This program is licensed under a Creative Commons Attribution 4.0 International License:"),
     Comment("// http://creativecommons.org/licenses/by/4.0/"),
     Comment("//"),
     Comment("// ExExFloat datatype and calculation of divided differences are described in the paper:"),
     Comment("// L. Gupta, L. Barash, I. Hen, Calculating the divided differences"),
     Comment("//"),
     Blank,
     Comment("//"),
     Comment("// Below are the parameter values:"),
     Comment("//"),
     Blank,
     Define("Tsteps", Tsteps),
     Define("steps", steps),
     Define("stepsPerMeasurement", stepsPerMeasurement),
     Define("beta", beta),
     Define("tau", tau),
     Define("parity_cond", parity) >>

SaveBlock ==
  << Blank,
     Toggle("SAVE_COMPLETED_CALCULATION"),
     Toggle("SAVE_UNFINISHED_CALCULATION"),
     Toggle("HURRY_ON_SIGTERM"),
     Blank >>

RestartBlock ==
  << Blank,
     Toggle("RESUME_CALCULATION"),
     Blank >>

FooterConstants ==
  << Blank,
     Comment("//"),
     Comment("// Below are the implementation parameters:"),
     Comment("//"),
     Blank,
     Define("qmax", "1000"),
     Define("Nbins", "250"),
     Toggle("EXHAUSTIVE_CYCLE_SEARCH"),
     Define("GAPS_GEOMETRIC_PARAMETER", "0.8"),
     Define("COMPOSITE_UPDATE_BREAK_PROBABILITY", "0.9"),
     Blank,
     Comment("// #define ABS_WEIGHTS"),
     Comment("// #define EXACTLY_REPRODUCIBLE"),
     Blank,
     Comment("//"),
     Comment("// Uncomment or comment the macros below to enable or disable the ability to checkpoint and restart"),
     Comment("//") >>

\* Variant: the restart block is appended only inside the save branch.
FooterRestartInsideSave(save, restart) ==
  FooterConstants
  \o (IF save = TRUE
      THEN SaveBlock \o (IF restart = TRUE THEN RestartBlock ELSE <<>>)
      ELSE <<>>)

make_param_file_footer(save, restart) ==
  FooterConstants
  \o (IF save = TRUE THEN SaveBlock ELSE <<>>)
  \o (IF restart = TRUE THEN RestartBlock ELSE <<>>)

ObservablesHeading ==
  << Blank,
     Comment("//"),
     Comment("// Below is the list of standard observables:"),
     Comment("//"),
     Blank >>

make_no_stand_param_fstr(beta, tau, Tsteps, steps, stepsPerMeasurement, parity, save, restart) ==
  make_param_file_header(beta, tau, Arg(Tsteps, 100000), Arg(steps, 1000000),
                         Arg(stepsPerMeasurement, 10), Arg(parity, 0))
  \o make_param_file_footer(Arg(save, TRUE), Arg(restart, FALSE))

\* Variant: the fidelity integral is declared whatever fidsus is.
HdiagAlwaysFint(beta, fidsus, Tsteps, steps, stepsPerMeasurement, parity, save, restart) ==
  make_param_file_header(beta, "0.0", Arg(Tsteps, 100000), Arg(steps, 1000000),
                         Arg(stepsPerMeasurement, 10), Arg(parity, 0))
  \o ObservablesHeading
  \o << Toggle("MEASURE_HDIAG"), Toggle("MEASURE_HDIAG_EINT"), Blank,
        Toggle("MEASURE_HDIAG_FINT") >>
  \o make_param_file_footer(Arg(save, TRUE), Arg(restart, FALSE))

make_hdiag_susceptibility_param_fstr(beta, fidsus, Tsteps, steps, stepsPerMeasurement, parity, save, restart) ==
  make_param_file_header(beta, "0.0", Arg(Tsteps, 100000), Arg(steps, 1000000),
                         Arg(stepsPerMeasurement, 10), Arg(parity, 0))
  \o ObservablesHeading
  \o << Toggle("MEASURE_HDIAG"), Toggle("MEASURE_HDIAG_EINT"), Blank >>
  \o (IF Arg(fidsus, TRUE) = TRUE THEN << Toggle("MEASURE_HDIAG_FINT") >> ELSE <<>>)
  \o make_param_file_footer(Arg(save, TRUE), Arg(restart, FALSE))

make_hoffdiag_susceptibility_param_fstr(beta, fidsus, Tsteps, steps, stepsPerMeasurement, parity, save, restart) ==
  make_param_file_header(beta, "0.0", Arg(Tsteps, 100000), Arg(steps, 1000000),
                         Arg(stepsPerMeasurement, 10), Arg(parity, 0))
  \o ObservablesHeading
  \o << Toggle("MEASURE_HOFFDIAG"), Toggle("MEASURE_HOFFDIAG_EINT"), Blank >>
  \o (IF Arg(fidsus, TRUE) = TRUE THEN << Toggle("MEASURE_HOFFDIAG_FINT") >> ELSE <<>>)
  \o make_param_file_footer(Arg(save, TRUE), Arg(restart, FALSE))

\* Variant: the magnetization is not declared.
AllStandWithoutMagnetization ==
  << Toggle("MEASURE_H"),
     Toggle("MEASURE_H2"),
     Toggle("MEASURE_HDIAG"),
     Toggle("MEASURE_HDIAG2"),
     Toggle("MEASURE_HOFFDIAG"),
     Toggle("MEASURE_HOFFDIAG2"),
     Toggle("MEASURE_HDIAG_CORR"),
     Toggle("MEASURE_HDIAG_EINT"),
     Toggle("MEASURE_HDIAG_FINT"),
     Toggle("MEASURE_HOFFDIAG_CORR"),
     Toggle("MEASURE_HOFFDIAG_EINT"),
     Toggle("MEASURE_HOFFDIAG_FINT") >>

AllStandObservables ==
  << Toggle("MEASURE_H"),
     Toggle("MEASURE_H2"),
     Toggle("MEASURE_HDIAG"),
     Toggle("MEASURE_HDIAG2"),
     Toggle("MEASURE_HOFFDIAG"),
     Toggle("MEASURE_HOFFDIAG2"),
     Toggle("MEASURE_Z_MAGNETIZATION"),
     Toggle("MEASURE_HDIAG_CORR"),
     Toggle("MEASURE_HDIAG_EINT"),
     Toggle("MEASURE_HDIAG_FINT"),
     Toggle("MEASURE_HOFFDIAG_CORR"),
     Toggle("MEASURE_HOFFDIAG_EINT"),
     Toggle("MEASURE_HOFFDIAG_FINT") >>

\* Variant: the Tsteps default is ten times that of the other builders.
AllStandTenfoldDefault(beta, tau, Tsteps, steps, stepsPerMeasurement, parity, save, restart) ==
  make_param_file_header(beta, tau, Arg(Tsteps, 1000000), Arg(steps, 1000000),
                         Arg(stepsPerMeasurement, 10), Arg(parity, 0))
  \o ObservablesHeading
  \o AllStandObservables
  \o make_param_file_footer(Arg(save, TRUE), Arg(restart, FALSE))

make_all_stand_param_fstr(beta, tau, Tsteps, steps, stepsPerMeasurement, parity, save, restart) ==
  make_param_file_header(beta, tau, Arg(Tsteps, 10000000), Arg(steps, 1000000),
                         Arg(stepsPerMeasurement, 10), Arg(parity, 0))
  \o ObservablesHeading
  \o AllStandObservables
  \o make_param_file_footer(Arg(save, TRUE), Arg(restart, FALSE))

(***************************************************************************)
(* The reports the engine is modelled to write: every line is one of the   *)
(* sample lines, all lines alike but one.                                  *)
(***************************************************************************)
LineSamples ==
  { <<"0", ".", "9", "8">>,
    <<"x">>,
    <<>>,
    <<"-", "3", ".", "2", "e", "-", "5", " ", "n", "a", "n", " ", "4", "2">>,
    <<"n", "a", "n">>,
    <<"t", ":", " ", "1", ".", "5", " ", "s">> }

ReportOf(n, fill, k, other) ==
  [i \in 1 .. n |-> IF i = k + 1 THEN other ELSE fill]

(***************************************************************************)
(* State machine.                                                          *)
(***************************************************************************)
Init ==
  /\ report = <<>>
  /\ op = "none"
  /\ args = <<>>
  /\ outcome = "idle"
  /\ ret = <<>>
  /\ exc = <<>>
  /\ reads = <<>>

\* The engine finishes its run and leaves its report at temp_fname; until
\* then the file is empty.  A run writes one report.
EngineWritesReport ==
  /\ report = <<>>
  /\ op = "none"
  /\ \E n \in 0 .. MaxLines, fill \in LineSamples, k \in 0 .. MaxLines - 1,
        other \in LineSamples :
       /\ k < n \/ k = 0
       /\ report' = ReportOf(n, fill, k, other)
       /\ UNCHANGED <<op, args, outcome, ret, exc, reads>>

Called(name, a, r) ==
  /\ op' = name
  /\ args' = a
  /\ outcome' = r.outcome
  /\ ret' = r.ret
  /\ exc' = r.exc
  /\ reads' = r.reads
  /\ UNCHANGED report

\* The file at temp_fname exists and can be read.
TempNames == {"temp.txt"}

CallParseOtxt ==
  \E f \in TempNames :
    Called("parse_otxt_temp", [temp_fname |-> f],
           parse_otxt_temp(report))

CallParseSusceptibility ==
  \E f \in TempNames, fidsus \in BOOLEAN :
    Called("parse_susceptibility_temp", [temp_fname |-> f, fidsus |-> fidsus],
           parse_susceptibility_temp(report, fidsus))

CallParseCorrelator ==
  \E f \in TempNames :
    Called("parse_correlator_temp", [temp_fname |-> f],
           parse_correlator_temp(report))

NextParse ==
  \/ EngineWritesReport
  \/ CallParseOtxt
  \/ CallParseSusceptibility
  \/ CallParseCorrelator

SpecParse == Init /\ [][NextParse]_vars

(***************************************************************************)
(* Calls of the builders.  The arguments a caller may pass:                *)
(***************************************************************************)
Opt(S) == {<<>>} \cup {<<v>> : v \in S}

Reals == {"0.5", "2.0"}

StepCounts == {7}

Parities == {1}

BuilderArgs ==
  [beta : Reals, tau : Reals, fidsus : Opt(BOOLEAN), Tsteps : Opt(StepCounts),
   steps : Opt(StepCounts), stepsPerMeasurement : Opt(StepCounts),
   parity : Opt(Parities), save : Opt(BOOLEAN), restart : Opt(BOOLEAN)]

\* The parameter file of a run is built once, before the engine runs.
Built(name, a, text) ==
  /\ op = "none"
  /\ report = <<>>
  /\ op' = name
  /\ args' = a
  /\ outcome' = "returned"
  /\ ret' = text
  /\ exc' = <<>>
  /\ reads' = <<>>
  /\ UNCHANGED report

\* tau is a required argument here, fidsus is no parameter.
CallMakeNoStand ==
  /\ op = "none"
  /\ \E a \in BuilderArgs :
       /\ a.fidsus = <<>>
       /\ Built("make_no_stand_param_fstr", a,
                make_no_stand_param_fstr(a.beta, a.tau, a.Tsteps, a.steps,
                                         a.stepsPerMeasurement, a.parity, a.save, a.restart))

\* tau is no parameter here; the model passes the first value for it.
CallMakeHdiag ==
  /\ op = "none"
  /\ \E a \in BuilderArgs :
       /\ a.tau = "0.5"
       /\ Built("make_hdiag_susceptibility_param_fstr", a,
                make_hdiag_susceptibility_param_fstr(a.beta, a.fidsus, a.Tsteps, a.steps,
                                                     a.stepsPerMeasurement, a.parity,
                                                     a.save, a.restart))

CallMakeHoffdiag ==
  /\ op = "none"
  /\ \E a \in BuilderArgs :
       /\ a.tau = "0.5"
       /\ Built("make_hoffdiag_susceptibility_param_fstr", a,
                make_hoffdiag_susceptibility_param_fstr(a.beta, a.fidsus, a.Tsteps, a.steps,
                                                        a.stepsPerMeasurement, a.parity,
                                                        a.save, a.restart))

CallMakeAllStand ==
  /\ op = "none"
  /\ \E a \in BuilderArgs :
       /\ a.fidsus = <<>>
       /\ Built("make_all_stand_param_fstr", a,
                make_all_stand_param_fstr(a.beta, a.tau, a.Tsteps, a.steps,
                                          a.stepsPerMeasurement, a.parity, a.save, a.restart))

NextBuild ==
  \/ CallMakeNoStand
  \/ CallMakeHdiag
  \/ CallMakeHoffdiag
  \/ CallMakeAllStand

SpecBuild == Init /\ [][NextBuild]_vars

Next == NextParse \/ NextBuild

Spec == Init /\ [][Next]_vars

(***************************************************************************)
(* What the checks below read off a state.                                 *)
(***************************************************************************)
BuilderNames ==
  {"make_no_stand_param_fstr", "make_hdiag_susceptibility_param_fstr",
   "make_hoffdiag_susceptibility_param_fstr", "make_all_stand_param_fstr"}

ParserNames ==
  {"parse_otxt_temp", "parse_susceptibility_temp", "parse_correlator_temp"}

\* The macro names a text defines (commented-out definitions do not count).
Defined(text) ==
  {text[i].name : i \in {j \in DOMAIN text : text[j].kind = "define"}}

\* The value a text gives to the macro name.
ValueOf(text, name) ==
  text[CHOOSE i \in DOMAIN text :
         text[i].kind = "define" /\ text[i].name = name].value[1]

\* The run parameters and implementation parameters of parameters.hpp;
\* every other macro a text defines declares a measurement.
ParameterNames ==
  {"Tsteps", "steps", "stepsPerMeasurement", "beta", "tau", "parity_cond",
   "qmax", "Nbins", "EXHAUSTIVE_CYCLE_SEARCH", "GAPS_GEOMETRIC_PARAMETER",
   "COMPOSITE_UPDATE_BREAK_PROBABILITY", "SAVE_COMPLETED_CALCULATION",
   "SAVE_UNFINISHED_CALCULATION", "HURRY_ON_SIGTERM", "RESUME_CALCULATION"}

Measures(text) == Defined(text) \ ParameterNames

SaveTokens ==
  {"SAVE_COMPLETED_CALCULATION", "SAVE_UNFINISHED_CALCULATION", "HURRY_ON_SIGTERM"}

Range(f) == {f[i] : i \in DOMAIN f}

HasToken(line) == FindAll(line) # <<>>

FirstToken(line) == FindAll(line)[1]

\* Number of result groups the call reads.
Groups ==
  CASE op = "parse_otxt_temp" -> 6
    [] op = "parse_susceptibility_temp" -> IF args.fidsus THEN 3 ELSE 2
    [] op = "parse_correlator_temp" -> 2

\* The lines a call with G result groups needs: the emergent lines, an
\* estimate line and a standard-error line per group, and the time line.
GroupLines(G) == UNION {{6 + 3 * j - 2, 6 + 3 * j - 1} : j \in 1 .. G}

Required(G) == {2, 3, 4, 5} \cup GroupLines(G) \cup {6 + 3 * G}

Present(idx) == idx < Len(report) /\ HasToken(report[idx + 1])

\* The token the call must find at line idx, as text and as a number.
TextAt(idx) == Str(FirstToken(report[idx + 1]))

NumberAt(idx) == Float(FirstToken(report[idx + 1]))

(***************************************************************************)
(* Claims about the builders (checked under SpecBuild).                    *)
(***************************************************************************)

\* C1: for each of the four builders and every pair of booleans passed for
\* save and restart, the text defines the three save-block macros if and
\* only if save is true and defines RESUME_CALCULATION if and only if restart
\* is true, each independently of the other flag.
C1_SaveRestartIndependent ==
  (op \in BuilderNames /\ args.save # <<>> /\ args.restart # <<>>) =>
    /\ \A t \in SaveTokens : (t \in Defined(ret)) <=> (args.save[1] = TRUE)
    /\ ("RESUME_CALCULATION" \in Defined(ret)) <=> (args.restart[1] = TRUE)

C1_Witness ==
  /\ op = "make_hoffdiag_susceptibility_param_fstr"
  /\ args.save = <<FALSE>>
  /\ args.restart = <<TRUE>>
  /\ "RESUME_CALCULATION" \in Defined(ret)
  /\ SaveTokens \cap Defined(ret) = {}

\* C2: the measurement macros a text defines are exactly those of the
\* builder's selection: none for the no-standard builder; MEASURE_HDIAG and
\* MEASURE_HDIAG_EINT, plus MEASURE_HDIAG_FINT exactly when fidsus is true,
\* for the diagonal builder; the same with the MEASURE_HOFFDIAG family for
\* the off-diagonal builder; whatever save, restart and the numbers are.
C2_ExactSelection ==
  /\ op = "make_no_stand_param_fstr" => Measures(ret) = {}
  /\ (op = "make_hdiag_susceptibility_param_fstr" /\ args.fidsus # <<>>) =>
       Measures(ret) =
         {"MEASURE_HDIAG", "MEASURE_HDIAG_EINT"}
         \cup (IF args.fidsus[1] THEN {"MEASURE_HDIAG_FINT"} ELSE {})
  /\ (op = "make_hoffdiag_susceptibility_param_fstr" /\ args.fidsus # <<>>) =>
       Measures(ret) =
         {"MEASURE_HOFFDIAG", "MEASURE_HOFFDIAG_EINT"}
         \cup (IF args.fidsus[1] THEN {"MEASURE_HOFFDIAG_FINT"} ELSE {})

C2_Witness ==
  /\ op = "make_hdiag_susceptibility_param_fstr"
  /\ args.fidsus = <<FALSE>>
  /\ args.save = <<TRUE>>
  /\ "MEASURE_HDIAG_EINT" \in Defined(ret)
  /\ "MEASURE_HDIAG_FINT" \notin Defined(ret)

\* C3 as stated: the all-standard builder declares exactly 12 distinct
\* measurements, for every input.
C3_TwelveMeasures ==
  op = "make_all_stand_param_fstr" => Cardinality(Measures(ret)) = 12

\* C3 as amended: the all-standard builder declares exactly 13 distinct
\* measurements (six energy moments, the magnetization, and a correlator, a
\* time integral and a fidelity integral for each of the two channels), for
\* every input.
C3_ThirteenMeasures ==
  op = "make_all_stand_param_fstr" =>
    /\ Cardinality(Measures(ret)) = 13
    /\ Measures(ret) = {AllStandObservables[i].name : i \in 1 .. 13}

C3_Witness ==
  /\ op = "make_all_stand_param_fstr"
  /\ args.save = <<FALSE>>
  /\ args.Tsteps = <<7>>
  /\ "MEASURE_Z_MAGNETIZATION" \in Measures(ret)
  /\ "MEASURE_HOFFDIAG_FINT" \in Measures(ret)

\* What the no-standard builder writes when every keyword argument is
\* omitted: its defaults.
NoStandDefaults ==
  make_no_stand_param_fstr("0.5", "0.5", <<>>, <<>>, <<>>, <<>>, <<>>, <<>>)

\* C4 as stated: with Tsteps omitted the all-standard builder writes 10 times
\* the Tsteps the no-standard builder writes with Tsteps omitted.
C4_TenfoldDefault ==
  (op = "make_all_stand_param_fstr" /\ args.Tsteps = <<>>) =>
    ValueOf(ret, "Tsteps") = 10 * ValueOf(NoStandDefaults, "Tsteps")

\* C4 as amended: with Tsteps omitted the all-standard builder writes 100
\* times the Tsteps that the no-standard, diagonal and off-diagonal builders
\* write with Tsteps omitted, which is one common value; the defaults of
\* steps and stepsPerMeasurement are the same in all four builders.
C4_HundredfoldDefault ==
  /\ (op = "make_all_stand_param_fstr" /\ args.Tsteps = <<>>) =>
       ValueOf(ret, "Tsteps") = 100 * ValueOf(NoStandDefaults, "Tsteps")
  /\ (op \in BuilderNames \ {"make_all_stand_param_fstr"} /\ args.Tsteps = <<>>) =>
       ValueOf(ret, "Tsteps") = ValueOf(NoStandDefaults, "Tsteps")
  /\ (op \in BuilderNames /\ args.steps = <<>>) =>
       ValueOf(ret, "steps") = ValueOf(NoStandDefaults, "steps")
  /\ (op \in BuilderNames /\ args.stepsPerMeasurement = <<>>) =>
       ValueOf(ret, "stepsPerMeasurement") =
         ValueOf(NoStandDefaults, "stepsPerMeasurement")

C4_Witness ==
  /\ op = "make_all_stand_param_fstr"
  /\ args.Tsteps = <<>>
  /\ args.steps = <<>>
  /\ ValueOf(ret, "Tsteps") = 10000000
  /\ ValueOf(ret, "steps") = 1000000

(***************************************************************************)
(* Claims about the parsers (checked under SpecParse).                     *)
(***************************************************************************)

\* C5: when lines 2..5, the estimate and standard-error lines of groups
\* 1..6 and the time line each hold a token, parse_otxt_temp returns; its
\* emergent list is the first tokens of lines 2, 3, 4, 5 in that order, and
\* it returns exactly six groups, group j with the number of the first token
\* of line 6 + 3*j - 2 as estimate and that of the next line as standard
\* error.  No other line (0, 1, the separators) enters the result.
C5_OtxtRecord ==
  (op = "parse_otxt_temp" /\ \A idx \in Required(6) : Present(idx)) =>
    /\ outcome = "returned"
    /\ ret[1] = <<TextAt(2), TextAt(3), TextAt(4), TextAt(5)>>
    /\ ret[2] = [j \in 1 .. 6 |-> NumberAt(6 + 3 * j - 2)]
    /\ ret[3] = [j \in 1 .. 6 |-> NumberAt(6 + 3 * j - 1)]

C5_Witness ==
  /\ op = "parse_otxt_temp"
  /\ outcome = "returned"
  /\ Len(report) = 25
  /\ report[1] = <<"0", ".", "9", "8">>
  /\ report[11] = <<"-", "3", ".", "2", "e", "-", "5", " ", "n", "a", "n", " ", "4", "2">>
  /\ ret[2][1] = Float(<<"0", ".", "9", "8">>)
  /\ ret[2][2] = Float(<<"-", "3", ".", "2", "e", "-", "5">>)

\* C6: whenever a line the call needs is missing from the report (the report
\* is truncated anywhere before its last needed line) or holds no token, the
\* call raises and returns nothing: no partial record, no default.  For all
\* three parsers and both values of fidsus.
C6_AllOrNothing ==
  (op \in ParserNames /\ \E idx \in Required(Groups) : ~Present(idx)) =>
    /\ outcome = "raised"
    /\ ret = <<>>
    /\ exc.type = "IndexError"

C6_Witness ==
  /\ op = "parse_susceptibility_temp"
  /\ args.fidsus = TRUE
  /\ Len(report) = 15
  /\ \A i \in 1 .. 15 : HasToken(report[i])
  /\ outcome = "raised"
  /\ ret = <<>>

\* C7: parse_susceptibility_temp returns three groups when fidsus is true
\* and two when it is false; groups 1 and 2 come from lines 7, 8 and 10, 11
\* in both modes, group 3 (lines 13, 14) is read only when fidsus is true,
\* the time comes from the line right after the last standard-error line,
\* and the call needs at least 16 lines when fidsus is true, 13 when false.
C7_SusceptibilityGroups ==
  op = "parse_susceptibility_temp" =>
    /\ (outcome = "returned") <=> \A idx \in Required(Groups) : Present(idx)
    /\ outcome = "returned" =>
         /\ Len(report) >= (IF args.fidsus THEN 16 ELSE 13)
         /\ Len(ret[2]) = (IF args.fidsus THEN 3 ELSE 2)
         /\ ret[2] = [j \in 1 .. Groups |-> TextAt(6 + 3 * j - 2)]
         /\ ret[3] = [j \in 1 .. Groups |-> TextAt(6 + 3 * j - 1)]
         /\ ret[4] = TextAt((6 + 3 * Groups - 1) + 1)
         /\ reads[Len(reads)] = (6 + 3 * Groups - 1) + 1
    /\ (13 \in Range(reads) \/ 14 \in Range(reads)) => args.fidsus

C7_Witness ==
  /\ op = "parse_susceptibility_temp"
  /\ args.fidsus = TRUE
  /\ outcome = "returned"
  /\ Len(report) = 16
  /\ Len(ret[2]) = 3
  /\ report[14] = <<"n", "a", "n">>
  /\ ret[2][3] = Str(<<"n", "a", "n">>)

\* C8 as stated: in all three parsers the emergent fields are returned as
\* text and the estimates and standard errors as floating-point numbers.
C8_GroupsAlwaysNumbers ==
  (op \in ParserNames /\ outcome = "returned") =>
    /\ \A i \in DOMAIN ret[1] : ret[1][i].py = "str"
    /\ \A i \in DOMAIN ret[2] : ret[2][i].py = "float"
    /\ \A i \in DOMAIN ret[3] : ret[3][i].py = "float"

\* C8 as amended: in all three parsers the emergent fields (and the time)
\* are returned as text; the estimates and standard errors are floating-point
\* numbers in parse_otxt_temp only, while parse_susceptibility_temp and
\* parse_correlator_temp return them as the matched text.
C8_OnlyOtxtCoerces ==
  (op \in ParserNames /\ outcome = "returned") =>
    /\ \A i \in DOMAIN ret[1] : ret[1][i].py = "str"
    /\ ret[4].py = "str"
    /\ \A i \in DOMAIN ret[2] :
         ret[2][i].py = (IF op = "parse_otxt_temp" THEN "float" ELSE "str")
    /\ \A i \in DOMAIN ret[3] :
         ret[3][i].py = (IF op = "parse_otxt_temp" THEN "float" ELSE "str")

C8_Witness ==
  /\ op = "parse_correlator_temp"
  /\ outcome = "returned"
  /\ ret[2][1] = Str(<<"0", ".", "9", "8">>)
  /\ ret[3][2].py = "str"
  /\ ret[1][1].py = "str"

\* C9 as stated: a call that fails on a missing line or token stops at once
\* and its error carries the path of the report and the index of the line.
C9_ErrorNamesFileAndLine ==
  (op \in ParserNames /\ outcome = "raised") =>
    /\ "filename" \in DOMAIN exc /\ exc.filename = args.temp_fname
    /\ "line" \in DOMAIN exc /\ exc.line = reads[Len(reads)]

\* C9 as amended: a call that fails on a missing line or token stops at
\* once: the line it failed on is the last one it touched and every line
\* before it was there with a token; the error that reaches the caller is the
\* bare IndexError "list index out of range", which carries neither the path
\* of the report nor the index of the line.
C9_FailsAtOnceBareError ==
  (op \in ParserNames /\ outcome = "raised") =>
    /\ reads # <<>>
    /\ ~Present(reads[Len(reads)])
    /\ \A i \in 1 .. Len(reads) - 1 : Present(reads[i]) /\ reads[i] < reads[i + 1]
    /\ exc = [type |-> "IndexError", message |-> "list index out of range"]
    /\ ret = <<>>

C9_Witness ==
  /\ op = "parse_otxt_temp"
  /\ outcome = "raised"
  /\ Len(report) = 26
  /\ report[11] = <<"x">>
  /\ reads = <<2, 3, 4, 5, 7, 8, 10>>

\* C10 as stated: parse_otxt_temp (G = 6) and parse_correlator_temp (G = 2)
\* read the time from line 6 + 3*(G - 1), a line after every group line.
C10_TimeLineGMinusOne ==
  (op \in {"parse_otxt_temp", "parse_correlator_temp"} /\ outcome = "returned") =>
    /\ reads[Len(reads)] = 6 + 3 * (Groups - 1)
    /\ ret[4] = TextAt(6 + 3 * (Groups - 1))
    /\ \A idx \in GroupLines(Groups) : idx < reads[Len(reads)]

\* C10 as amended: parse_otxt_temp (G = 6) and parse_correlator_temp (G = 2)
\* read the time as the first token of line 6 + 3*G (24 and 12), which is the
\* last line they read and lies after every line read for a result group.
C10_TimeLineG ==
  (op \in {"parse_otxt_temp", "parse_correlator_temp"} /\ outcome = "returned") =>
    /\ reads[Len(reads)] = 6 + 3 * Groups
    /\ ret[4] = TextAt(6 + 3 * Groups)
    /\ \A idx \in GroupLines(Groups) : idx \in Range(reads) /\ idx < reads[Len(reads)]

C10_Witness ==
  /\ op = "parse_correlator_temp"
  /\ outcome = "returned"
  /\ Len(report) = 13
  /\ report[13] = <<"t", ":", " ", "1", ".", "5", " ", "s">>
  /\ report[10] = <<"0", ".", "9", "8">>
  /\ ret[4] = Str(<<"1", ".", "5">>)

====
